---- MODULE Spec2Model ----
(***************************************************************************)
(* State-machine model of the enhanced agent orchestrator                  *)
(* (src/agents/orchestrator_enhanced.py): the priority task queue, the     *)
(* dispatcher thread (_orchestration_loop / _process_task_queue), the      *)
(* worker pool (_execute_task), the heartbeat monitor (_agent_monitor)     *)
(* and the API callers (submit_task, stop).                                *)
(*                                                                         *)
(* Task ids are uuid4 strings made fresh for every AgentTask (lines 399,   *)
(* 406, 413); the model numbers the task objects 1, 2, ... in the order    *)
(* they are submitted.                                                     *)
(***************************************************************************)
EXTENDS Integers, Sequences, FiniteSets, TLC

\* ------------------------------------------------------------------ bounds
\* Number of tasks submitted in the general specification (Spec).
MaxTasks == 2
\* Number of tasks submitted in the priority specification (SpecPriority).
MaxPrioTasks == 3
\* Number of tasks submitted in the load specification (SpecLoad).
MaxLoadTasks == 5
\* Largest number of ids in one task's dependencies set.
MaxDeps == 1
\* Number of times the clock advances (by heartbeat_timeout seconds each).
MaxTicks == 2
\* Number of tasks submitted in the heartbeat specification (SpecBeat).
MaxBeatTasks == 2
\* Number of Task objects created in the basic specification (SpecBasic).
MaxCreated == 2
\* Number of milliseconds the basic orchestrator's clock advances.
MaxClockMs == 1
MaxBlockedTasks == 3
MaxResubmitTasks == 3

\* --------------------------------------------------------------- constants
\* TaskPriority
CRITICAL == 1
HIGH == 2
NORMAL == 3
LOW == 4
BACKGROUND == 5

\* AgentType
ORCHESTRATOR == "orchestrator"
IMPLEMENTATION == "implementation"
ENVIRONMENT == "environment"
CONFIGURATION == "configuration"
TESTING == "testing"

\* TaskStatus
PENDING == "pending"
RUNNING == "running"
COMPLETED == "completed"
FAILED == "failed"
CANCELLED == "cancelled"

\* Python's None
None == "None"

\* OrchestratorConfig.heartbeat_timeout (seconds)
heartbeat_timeout == 90
\* load added by an assignment and given back by a completion
LoadStep == 20
\* _find_available_agent: "agent.load_factor < 80"
LoadThreshold == 80

\* register_builtin_agents: the four agents, in the insertion order of the
\* agents dict (the order _find_available_agent iterates in).
AgentIds == <<"impl", "env", "config", "test">>

BuiltinAgentType(a) ==
    CASE a = "impl" -> IMPLEMENTATION
      [] a = "env" -> ENVIRONMENT
      [] a = "config" -> CONFIGURATION
      [] a = "test" -> TESTING

AgentSet == {AgentIds[i] : i \in 1..Len(AgentIds)}

\* The names the agent classes give themselves, and the two more that
\* _get_agent_for_task maps to.
BasicAgentNames ==
    {"ImplementationAgent", "EnvironmentAgent", "ConfigurationAgent",
     "DocumentationAgent", "TestingAgent"}

\* TaskType of the basic orchestrator, by value. The class body repeats
\* four members (lines 59-62); the distinct members are meant.
TaskTypeValues ==
    {"code_generation", "environment_setup", "documentation_update",
     "test_generation", "config_update", "build_validation",
     "dependency_check", "prd_change_handler", "requirements_analysis"}

\* The threads that take the enhanced orchestrator's locks: the dispatcher
\* thread, the monitor thread, a pool worker and two API callers.
Threads == {"dispatcher", "monitor", "worker", "caller1", "caller2"}

\* ------------------------------------------------------------------- state
VARIABLES
    tasks,            \* self.tasks: task id -> AgentTask record
    task_queue,       \* self.task_queue: the PriorityQueue's heap list
    completed_tasks,  \* self.completed_tasks (its key set)
    failed_tasks,     \* self.failed_tasks (its key set)
    agents,           \* self.agents: agent id -> AgentInfo record
    running,          \* self.running
    executor_down,    \* the ThreadPoolExecutor has been shut down
    pool,             \* work items handed to the executor and not finished
    pc,               \* position of the dispatcher thread
    cur_task,         \* _process_task_queue's local "task"
    cur_agent,        \* _process_task_queue's local "agent"
    now               \* time.time(), seconds since construction

\* The basic orchestrator (src/agents/agent_orchestrator.py), a separate
\* class with its own state.
VARIABLES
    basic_agents,     \* self.agents (the names registered)
    active_tasks,     \* self.active_tasks: task_id -> Task object
    task_history,     \* self.task_history: list of Task objects
    agent_task_queue, \* Agent.task_queue of every agent object
    created,          \* the Task objects constructed so far, in order
    clock_ms,         \* int(time.time() * 1000)
    submit_result     \* the last submit_task call: <<Task object, outcome>>

basic_vars == <<basic_agents, active_tasks, task_history, agent_task_queue,
                created, clock_ms, submit_result>>

enhanced_vars == <<tasks, task_queue, completed_tasks, failed_tasks, agents,
                   running, executor_down, pool, pc, cur_task, cur_agent, now>>

\* The two locks of the enhanced orchestrator and where each thread is in
\* the "with" block it executes.
VARIABLES
    task_lock,        \* self.task_lock: the thread that owns it, or None
    agent_lock,       \* self.agent_lock: the thread that owns it, or None
    thread_at         \* thread -> <<locked section, locking steps taken>>

lock_vars == <<task_lock, agent_lock, thread_at>>

\* self.tasks of the enhanced orchestrator: task_id -> AgentTask object.
\* The objects themselves, with their fields, are in "tasks", keyed by
\* object; an object submitted under a task_id nobody used before has that
\* task_id as its key.
VARIABLES
    task_store

vars == <<enhanced_vars, basic_vars, lock_vars, task_store>>

\* The AgentTask objects constructed so far.
TaskIds == DOMAIN tasks

\* AgentTask(...) as constructed by a caller: status PENDING, no result,
\* no error, no agent.
AgentTask(task_id, agent_type, priority, dependencies, task_type) ==
    [task_id |-> task_id,
     task_type |-> task_type,
     agent_type |-> agent_type,
     priority |-> priority,
     dependencies |-> dependencies,
     status |-> PENDING,
     result |-> None,
     error_message |-> None,
     assigned_agent |-> None]

\* AgentInfo(...) as constructed by register_builtin_agents.
AgentInfo(a) ==
    [agent_type |-> BuiltinAgentType(a),
     is_active |-> TRUE,
     load_factor |-> 0,
     last_heartbeat |-> 0]

Init ==
    /\ tasks = <<>>
    /\ task_queue = <<>>
    /\ completed_tasks = {}
    /\ failed_tasks = {}
    /\ agents = [a \in AgentSet |-> AgentInfo(a)]
    /\ running = TRUE
    /\ executor_down = FALSE
    /\ pool = {}
    /\ pc = "loop"
    /\ cur_task = 0
    /\ cur_agent = None
    /\ now = 0
    /\ task_store = <<>>
    /\ basic_agents = {}
    /\ active_tasks = <<>>
    /\ task_history = <<>>
    /\ agent_task_queue = [name \in BasicAgentNames |-> {}]
    /\ created = <<>>
    /\ clock_ms = 0
    /\ submit_result = <<0, None>>
    /\ task_lock = None
    /\ agent_lock = None
    /\ thread_at = [th \in Threads |-> <<"idle", 0>>]

\* ------------------------------------------------------- the priority queue
\* Faulty variant of TaskLt: no task ever compares below another, so the
\* heap keeps arrival order.
TaskLtNever(store, a, b) == FALSE

\* AgentTask.__lt__: only the priority is compared. store maps the queued
\* task ids to their records.
TaskLt(store, a, b) == store[a].priority < store[b].priority

\* heapq._siftdown(heap, startpos, pos), positions counted from 1.
RECURSIVE siftdown(_, _, _, _, _)
siftdown(store, heap, newitem, startpos, pos) ==
    IF pos > startpos /\ TaskLt(store, newitem, heap[pos \div 2])
    THEN siftdown(store, [heap EXCEPT ![pos] = heap[pos \div 2]],
                      newitem, startpos, pos \div 2)
    ELSE [heap EXCEPT ![pos] = newitem]

\* heapq._siftup(heap, pos): bubble the smaller child up to a leaf, then
\* sift the displaced item down from there.
RECURSIVE siftup(_, _, _, _, _)
siftup(store, heap, newitem, startpos, pos) ==
    LET childpos == 2 * pos
        rightpos == childpos + 1
        child == IF rightpos <= Len(heap)
                    /\ ~TaskLt(store, heap[childpos], heap[rightpos])
                 THEN rightpos ELSE childpos
    IN  IF childpos <= Len(heap)
        THEN siftup(store, [heap EXCEPT ![pos] = heap[child]],
                        newitem, startpos, child)
        ELSE siftdown(store, heap, newitem, startpos, pos)

\* PriorityQueue.put -> heapq.heappush
heappush(store, heap, item) ==
    siftdown(store, Append(heap, item), item, 1, Len(heap) + 1)

\* PriorityQueue.get_nowait -> heapq.heappop: <<item, heap left>>
heappop(store, heap) ==
    LET lastelt == heap[Len(heap)]
        rest == SubSeq(heap, 1, Len(heap) - 1)
    IN  IF rest = <<>>
        THEN <<lastelt, rest>>
        ELSE <<heap[1],
               siftup(store, [rest EXCEPT ![1] = lastelt], lastelt, 1, 1)>>

QueueSet == {task_queue[i] : i \in 1..Len(task_queue)}

\* ------------------------------------------------------------ pure helpers
\* Faulty variant of dependencies_satisfied: the gate is always open.
dependencies_ignored(t) == TRUE

\* Faulty variant of dependencies_satisfied: a dependency that has ended,
\* completed or failed, counts as satisfied.
dependencies_ended(t) ==
    \A dep_id \in tasks[t].dependencies :
        dep_id \in completed_tasks \cup failed_tasks

\* _dependencies_satisfied: every dep_id is a key of completed_tasks.
dependencies_satisfied(t) ==
    \A dep_id \in tasks[t].dependencies : dep_id \in completed_tasks

\* Faulty variant of AgentAvailable: the agent's type is not compared.
AgentAvailableAnyType(a, agent_type) ==
    /\ agents[a].is_active
    /\ agents[a].load_factor < LoadThreshold

\* Faulty variant of AgentAvailable: an agent at the threshold still passes.
AgentAvailableInclusive(a, agent_type) ==
    /\ agents[a].agent_type = agent_type
    /\ agents[a].is_active
    /\ agents[a].load_factor <= LoadThreshold

\* Faulty variant of AgentAvailable: the active flag is not consulted.
AgentAvailableIgnoresActive(a, agent_type) ==
    /\ agents[a].agent_type = agent_type
    /\ agents[a].load_factor < LoadThreshold

\* The condition of _find_available_agent's scan.
AgentAvailable(a, agent_type) ==
    /\ agents[a].agent_type = agent_type
    /\ agents[a].is_active
    /\ agents[a].load_factor < LoadThreshold

\* _find_available_agent: the first agent of the dict that is available,
\* or None.
find_available_agent(agent_type) ==
    LET hits == {i \in 1..Len(AgentIds) : AgentAvailable(AgentIds[i], agent_type)}
    IN  IF hits = {} THEN None
        ELSE AgentIds[CHOOSE i \in hits : \A j \in hits : i <= j]

\* The task types each _execute_<kind>_task knows, with what its handler
\* returns.
KnownTaskTypes(agent_type) ==
    CASE agent_type = IMPLEMENTATION ->
           {"generate_cpp_module", "create_python_bindings", "optimize_simd"}
      [] agent_type = ENVIRONMENT ->
           {"setup_dependencies", "compile_source_libraries",
            "configure_uv_environment"}
      [] agent_type = CONFIGURATION -> {"generate_cmake", "setup_grpc"}
      [] agent_type = TESTING ->
           {"run_unit_tests", "run_benchmarks", "generate_coverage"}
      [] OTHER -> {}

\* _execute_task's routing: TRUE when the handler returns, FALSE when it
\* raises ValueError (unknown agent type or unknown task type).
HandlerReturns(agent_type, task_type) ==
    task_type \in KnownTaskTypes(agent_type)

\* What the handler of a known task type returns (lines 476-521).
HandlerResult(agent_type, task_type) ==
    CASE task_type = "generate_cpp_module" -> "cpp_module_generated"
      [] task_type = "create_python_bindings" -> "python_bindings_created"
      [] task_type = "optimize_simd" -> "simd_optimization_applied"
      [] task_type = "setup_dependencies" -> "dependencies_configured"
      [] task_type = "compile_source_libraries" -> "source_libraries_compiled"
      [] task_type = "configure_uv_environment" -> "uv_environment_configured"
      [] task_type = "generate_cmake" -> "cmake_configuration_generated"
      [] task_type = "setup_grpc" -> "grpc_integration_setup"
      [] task_type = "run_unit_tests" -> "unit_tests_executed"
      [] task_type = "run_benchmarks" -> "benchmarks_executed"
      [] task_type = "generate_coverage" -> "coverage_report_generated"

\* str(e) of the ValueError raised: the message and the value formatted
\* into it.
HandlerError(agent_type, task_type) ==
    CASE agent_type = IMPLEMENTATION ->
           <<"Unknown implementation task: ", task_type>>
      [] agent_type = ENVIRONMENT ->
           <<"Unknown environment task: ", task_type>>
      [] agent_type = CONFIGURATION ->
           <<"Unknown configuration task: ", task_type>>
      [] agent_type = TESTING -> <<"Unknown testing task: ", task_type>>
      [] OTHER -> <<"Unknown agent type: ", agent_type>>

\* The None that a lookup of a task object returns: no object has key 0.
NoTask == 0

\* get_task_status(task_id): self.tasks.get(task_id), the object the store
\* has under that id, or None.
get_task_status(task_id) ==
    IF task_id \in DOMAIN task_store THEN task_store[task_id] ELSE NoTask

\* The number of objects in self.tasks.values() with the given status.
StoreCount(status) ==
    Cardinality({id \in DOMAIN task_store :
                    tasks[task_store[id]].status = status})

\* get_system_status(): the "agents" and "tasks" parts of its result.
get_system_status ==
    [agents |->
        [total |-> Cardinality(AgentSet),
         active |-> Cardinality({a \in AgentSet : agents[a].is_active}),
         by_type |->
            [agent_type \in {agents[a].agent_type : a \in AgentSet} |->
                Cardinality({a \in AgentSet :
                                /\ agents[a].agent_type = agent_type
                                /\ agents[a].is_active})]],
     tasks |->
        [total |-> Cardinality(DOMAIN task_store),
         pending |-> StoreCount(PENDING),
         running |-> StoreCount(RUNNING),
         completed |-> Cardinality(completed_tasks),
         failed |-> Cardinality(failed_tasks)]]

\* ----------------------------------------------------------------- actions
\* submit_task(task), for a freshly constructed AgentTask object obj whose
\* task_id is id: self.tasks[task.task_id] = task replaces whatever object
\* self.tasks had under that id, and the object is queued.
submit_task_object(obj, id, agent_type, priority, dependencies, task_type) ==
    /\ obj \notin TaskIds
    /\ tasks' = (obj :> AgentTask(id, agent_type, priority, dependencies,
                                  task_type)) @@ tasks
    /\ task_store' = (id :> obj) @@ task_store
    /\ task_queue' = heappush(tasks', task_queue, obj)
    /\ UNCHANGED <<completed_tasks, failed_tasks, agents, running,
                   executor_down, pool, pc, cur_task, cur_agent, now>>
    /\ UNCHANGED <<basic_vars, lock_vars>>

\* submit_task(task) with a task_id no earlier task had.
submit_task(id, agent_type, priority, dependencies, task_type) ==
    submit_task_object(id, id, agent_type, priority, dependencies, task_type)

\* Faulty variant of PopTask: the head is read but left in the queue.
PeekTask ==
    /\ pc = "loop"
    /\ task_queue # <<>> /\ running
    /\ cur_task' = task_queue[1]
    /\ pc' = "deps"
    /\ UNCHANGED <<tasks, task_queue, completed_tasks, failed_tasks, agents,
                   running, executor_down, pool, cur_agent, now>>
    /\ UNCHANGED <<basic_vars, lock_vars, task_store>>

\* _process_task_queue, line 299-301: the loop test passes and the head of
\* the heap is popped.
PopTask ==
    /\ pc = "loop"
    /\ task_queue # <<>> /\ running
    /\ cur_task' = heappop(tasks, task_queue)[1]
    /\ task_queue' = heappop(tasks, task_queue)[2]
    /\ pc' = "deps"
    /\ UNCHANGED <<tasks, completed_tasks, failed_tasks, agents, running,
                   executor_down, pool, cur_agent, now>>
    /\ UNCHANGED <<basic_vars, lock_vars, task_store>>

\* _process_task_queue, line 299: the loop test fails, the drain pass ends.
EndPass ==
    /\ pc = "loop"
    /\ ~(task_queue # <<>> /\ running)
    /\ pc' = "sleep"
    /\ UNCHANGED <<tasks, task_queue, completed_tasks, failed_tasks, agents,
                   running, executor_down, pool, cur_task, cur_agent, now>>
    /\ UNCHANGED <<basic_vars, lock_vars, task_store>>

\* _process_task_queue, lines 304-307: a task that is not ready is put
\* back and the loop continues.
CheckDependencies ==
    /\ pc = "deps"
    /\ IF dependencies_satisfied(cur_task)
       THEN /\ pc' = "find"
            /\ UNCHANGED <<task_queue, cur_task>>
       ELSE /\ task_queue' = heappush(tasks, task_queue, cur_task)
            /\ cur_task' = 0
            /\ pc' = "loop"
    /\ UNCHANGED <<tasks, completed_tasks, failed_tasks, agents, running,
                   executor_down, pool, cur_agent, now>>
    /\ UNCHANGED <<basic_vars, lock_vars, task_store>>

\* Faulty variant of FindAgent: with no agent the task is put back and the
\* drain loop goes on (continue in place of break).
FindAgentContinues ==
    /\ pc = "find"
    /\ LET agent == find_available_agent(tasks[cur_task].agent_type)
       IN  IF agent # None
           THEN /\ cur_agent' = agent
                /\ pc' = "assign"
                /\ UNCHANGED <<task_queue, cur_task>>
           ELSE /\ task_queue' = heappush(tasks, task_queue, cur_task)
                /\ cur_task' = 0
                /\ cur_agent' = None
                /\ pc' = "loop"
    /\ UNCHANGED <<tasks, completed_tasks, failed_tasks, agents, running,
                   executor_down, pool, now>>
    /\ UNCHANGED <<basic_vars, lock_vars, task_store>>

\* Faulty variant of FindAgent: with no agent the task is not put back.
FindAgentDrops ==
    /\ pc = "find"
    /\ LET agent == find_available_agent(tasks[cur_task].agent_type)
       IN  IF agent # None
           THEN /\ cur_agent' = agent
                /\ pc' = "assign"
                /\ UNCHANGED <<task_queue, cur_task>>
           ELSE /\ UNCHANGED task_queue
                /\ cur_task' = 0
                /\ cur_agent' = None
                /\ pc' = "sleep"
    /\ UNCHANGED <<tasks, completed_tasks, failed_tasks, agents, running,
                   executor_down, pool, now>>
    /\ UNCHANGED <<basic_vars, lock_vars, task_store>>

\* _process_task_queue, lines 310-316: the scan under agent_lock; with no
\* agent the task is put back and the pass ends (break).
FindAgent ==
    /\ pc = "find"
    /\ LET agent == find_available_agent(tasks[cur_task].agent_type)
       IN  IF agent # None
           THEN /\ cur_agent' = agent
                /\ pc' = "assign"
                /\ UNCHANGED <<task_queue, cur_task>>
           ELSE /\ task_queue' = heappush(tasks, task_queue, cur_task)
                /\ cur_task' = 0
                /\ cur_agent' = None
                /\ pc' = "sleep"
    /\ UNCHANGED <<tasks, completed_tasks, failed_tasks, agents, running,
                   executor_down, pool, now>>
    /\ UNCHANGED <<basic_vars, lock_vars, task_store>>

\* _assign_task_to_agent: the update under task_lock, then
\* executor.submit, which raises RuntimeError after a shutdown (caught at
\* line 318, the loop goes on).
assign_task_to_agent ==
    /\ pc = "assign"
    /\ tasks' = [tasks EXCEPT ![cur_task].status = RUNNING,
                              ![cur_task].assigned_agent = cur_agent]
    /\ agents' = [agents EXCEPT ![cur_agent].load_factor = @ + LoadStep]
    /\ pool' = IF executor_down THEN pool
               ELSE pool \cup {<<cur_task, cur_agent>>}
    /\ cur_task' = 0
    /\ cur_agent' = None
    /\ pc' = "loop"
    /\ UNCHANGED <<task_queue, completed_tasks, failed_tasks, running,
                   executor_down, now>>
    /\ UNCHANGED <<basic_vars, lock_vars, task_store>>

\* _orchestration_loop, lines 277-291: the cycle ends (the three checks
\* after the drain pass do nothing), sleep, next cycle while running.
NextCycle ==
    /\ pc = "sleep"
    /\ pc' = IF running THEN "loop" ELSE "done"
    /\ UNCHANGED <<tasks, task_queue, completed_tasks, failed_tasks, agents,
                   running, executor_down, pool, cur_task, cur_agent, now>>
    /\ UNCHANGED <<basic_vars, lock_vars, task_store>>

\* The load given back by _execute_task.
ReleaseLoad(load) == IF load - LoadStep > 0 THEN load - LoadStep ELSE 0

\* Faulty variant of execute_task_completed: the finished task's agent is
\* released by clearing assigned_agent.
execute_task_completed_clears_agent(t, a) ==
    /\ <<t, a>> \in pool
    /\ HandlerReturns(agents[a].agent_type, tasks[t].task_type)
    /\ tasks' = [tasks EXCEPT
                   ![t].status = COMPLETED,
                   ![t].assigned_agent = None,
                   ![t].result = HandlerResult(agents[a].agent_type,
                                               tasks[t].task_type)]
    /\ completed_tasks' = completed_tasks \cup {tasks[t].task_id}
    /\ agents' = [agents EXCEPT ![a].load_factor = ReleaseLoad(@)]
    /\ pool' = pool \ {<<t, a>>}
    /\ UNCHANGED <<task_queue, failed_tasks, running, executor_down, pc,
                   cur_task, cur_agent, now>>
    /\ UNCHANGED <<basic_vars, lock_vars, task_store>>

\* _execute_task on a pool thread, the handler returning: lines 370-376.
execute_task_completed(t, a) ==
    /\ <<t, a>> \in pool
    /\ HandlerReturns(agents[a].agent_type, tasks[t].task_type)
    /\ tasks' = [tasks EXCEPT
                   ![t].status = COMPLETED,
                   ![t].result = HandlerResult(agents[a].agent_type,
                                               tasks[t].task_type)]
    /\ completed_tasks' = completed_tasks \cup {tasks[t].task_id}
    /\ agents' = [agents EXCEPT ![a].load_factor = ReleaseLoad(@)]
    /\ pool' = pool \ {<<t, a>>}
    /\ UNCHANGED <<task_queue, failed_tasks, running, executor_down, pc,
                   cur_task, cur_agent, now>>
    /\ UNCHANGED <<basic_vars, lock_vars, task_store>>

\* Faulty variant of execute_task_failed: the load is not given back.
execute_task_failed_keeps_load(t, a) ==
    /\ <<t, a>> \in pool
    /\ ~HandlerReturns(agents[a].agent_type, tasks[t].task_type)
    /\ tasks' = [tasks EXCEPT
                   ![t].status = FAILED,
                   ![t].error_message = HandlerError(agents[a].agent_type,
                                                     tasks[t].task_type)]
    /\ failed_tasks' = failed_tasks \cup {tasks[t].task_id}
    /\ pool' = pool \ {<<t, a>>}
    /\ UNCHANGED <<task_queue, completed_tasks, agents, running,
                   executor_down, pc, cur_task, cur_agent, now>>
    /\ UNCHANGED <<basic_vars, lock_vars, task_store>>

\* Faulty variant of execute_task_failed: the exception text is not stored.
execute_task_failed_no_message(t, a) ==
    /\ <<t, a>> \in pool
    /\ ~HandlerReturns(agents[a].agent_type, tasks[t].task_type)
    /\ tasks' = [tasks EXCEPT ![t].status = FAILED]
    /\ failed_tasks' = failed_tasks \cup {tasks[t].task_id}
    /\ agents' = [agents EXCEPT ![a].load_factor = ReleaseLoad(@)]
    /\ pool' = pool \ {<<t, a>>}
    /\ UNCHANGED <<task_queue, completed_tasks, running, executor_down, pc,
                   cur_task, cur_agent, now>>
    /\ UNCHANGED <<basic_vars, lock_vars, task_store>>

\* Faulty variant of execute_task_failed: the failed task is put back on
\* the queue for another attempt.
execute_task_failed_requeues(t, a) ==
    /\ <<t, a>> \in pool
    /\ ~HandlerReturns(agents[a].agent_type, tasks[t].task_type)
    /\ tasks' = [tasks EXCEPT
                   ![t].status = FAILED,
                   ![t].error_message = HandlerError(agents[a].agent_type,
                                                     tasks[t].task_type)]
    /\ failed_tasks' = failed_tasks \cup {tasks[t].task_id}
    /\ agents' = [agents EXCEPT ![a].load_factor = ReleaseLoad(@)]
    /\ task_queue' = heappush(tasks', task_queue, t)
    /\ pool' = pool \ {<<t, a>>}
    /\ UNCHANGED <<completed_tasks, running, executor_down, pc,
                   cur_task, cur_agent, now>>
    /\ UNCHANGED <<basic_vars, lock_vars, task_store>>

\* _execute_task on a pool thread, the handler raising: lines 380-388.
execute_task_failed(t, a) ==
    /\ <<t, a>> \in pool
    /\ ~HandlerReturns(agents[a].agent_type, tasks[t].task_type)
    /\ tasks' = [tasks EXCEPT
                   ![t].status = FAILED,
                   ![t].error_message = HandlerError(agents[a].agent_type,
                                                     tasks[t].task_type)]
    /\ failed_tasks' = failed_tasks \cup {tasks[t].task_id}
    /\ agents' = [agents EXCEPT ![a].load_factor = ReleaseLoad(@)]
    /\ pool' = pool \ {<<t, a>>}
    /\ UNCHANGED <<task_queue, completed_tasks, running, executor_down, pc,
                   cur_task, cur_agent, now>>
    /\ UNCHANGED <<basic_vars, lock_vars, task_store>>

\* The test of _agent_monitor's sweep.
HeartbeatExpired(a) == (now - agents[a].last_heartbeat) > heartbeat_timeout

\* Faulty variant of agent_monitor: an agent marked inactive also has its
\* load cleared.
agent_monitor_resets_load ==
    /\ running
    /\ \E a \in AgentSet : HeartbeatExpired(a) /\ agents[a].is_active
    /\ agents' = [a \in AgentSet |->
                    IF HeartbeatExpired(a)
                    THEN [agents[a] EXCEPT !.is_active = FALSE,
                                           !.load_factor = 0]
                    ELSE agents[a]]
    /\ UNCHANGED <<tasks, task_queue, completed_tasks, failed_tasks, running,
                   executor_down, pool, pc, cur_task, cur_agent, now>>
    /\ UNCHANGED <<basic_vars, lock_vars, task_store>>

\* _agent_monitor: one sweep under agent_lock.
agent_monitor ==
    /\ running
    /\ \E a \in AgentSet : HeartbeatExpired(a) /\ agents[a].is_active
    /\ agents' = [a \in AgentSet |->
                    IF HeartbeatExpired(a)
                    THEN [agents[a] EXCEPT !.is_active = FALSE]
                    ELSE agents[a]]
    /\ UNCHANGED <<tasks, task_queue, completed_tasks, failed_tasks, running,
                   executor_down, pool, pc, cur_task, cur_agent, now>>
    /\ UNCHANGED <<basic_vars, lock_vars, task_store>>

\* The external liveness signal of an agent: AgentInfo.last_heartbeat is
\* set to the current time. The orchestrator has no handler of its own for
\* it; is_active is written by _agent_monitor alone.
heartbeat(a) ==
    /\ agents[a].last_heartbeat # now
    /\ agents' = [agents EXCEPT ![a].last_heartbeat = now]
    /\ UNCHANGED <<tasks, task_queue, completed_tasks, failed_tasks, running,
                   executor_down, pool, pc, cur_task, cur_agent, now>>
    /\ UNCHANGED <<basic_vars, lock_vars, task_store>>

\* time.time() advances.
Tick ==
    /\ now < MaxTicks * heartbeat_timeout
    /\ now' = now + heartbeat_timeout
    /\ UNCHANGED <<tasks, task_queue, completed_tasks, failed_tasks, agents,
                   running, executor_down, pool, pc, cur_task, cur_agent>>
    /\ UNCHANGED <<basic_vars, lock_vars, task_store>>

\* stop(), line 260.
stop ==
    /\ running
    /\ running' = FALSE
    /\ UNCHANGED <<tasks, task_queue, completed_tasks, failed_tasks, agents,
                   executor_down, pool, pc, cur_task, cur_agent, now>>
    /\ UNCHANGED <<basic_vars, lock_vars, task_store>>

\* stop(), line 267: executor.shutdown; later submits raise.
ExecutorShutdown ==
    /\ ~running
    /\ ~executor_down
    /\ executor_down' = TRUE
    /\ UNCHANGED <<tasks, task_queue, completed_tasks, failed_tasks, agents,
                   running, pool, pc, cur_task, cur_agent, now>>
    /\ UNCHANGED <<basic_vars, lock_vars, task_store>>

\* ------------------------------------------------------------- the locks
\* Faulty variant of SectionLocks: _find_available_agent also takes
\* task_lock, inside agent_lock, to read the load.
SectionLocksNested(section) ==
    CASE section = "find_available_agent" -> <<"agent_lock", "task_lock">>
      [] section = "assign_task_to_agent" -> <<"task_lock">>
      [] section = "execute_task" -> <<"task_lock">>
      [] section = "agent_monitor" -> <<"agent_lock">>
      [] section = "submit_task" -> <<"task_lock">>
      [] section = "get_task_status" -> <<"task_lock">>
      [] section = "get_system_status" -> <<"task_lock", "agent_lock">>
      [] OTHER -> <<>>

\* The locks each "with" block acquires, in order of acquisition (lines
\* 330, 340, 370/382, 540, 554, 562, 567).
SectionLocks(section) ==
    CASE section = "find_available_agent" -> <<"agent_lock">>
      [] section = "assign_task_to_agent" -> <<"task_lock">>
      [] section = "execute_task" -> <<"task_lock">>
      [] section = "agent_monitor" -> <<"agent_lock">>
      [] section = "submit_task" -> <<"task_lock">>
      [] section = "get_task_status" -> <<"task_lock">>
      [] section = "get_system_status" -> <<"task_lock", "agent_lock">>
      [] OTHER -> <<>>

LockedSections ==
    {"find_available_agent", "assign_task_to_agent", "execute_task",
     "agent_monitor", "submit_task", "get_task_status", "get_system_status"}

\* The locked sections each thread executes.
ThreadSections(th) ==
    CASE th = "dispatcher" -> {"find_available_agent", "assign_task_to_agent"}
      [] th = "monitor" -> {"agent_monitor"}
      [] th = "worker" -> {"execute_task"}
      [] OTHER -> {"submit_task", "get_task_status", "get_system_status"}

Owner(lock) == IF lock = "task_lock" THEN task_lock ELSE agent_lock

\* The lock thread th acquires next, or None: it is past its acquisitions
\* or idle.
NextLock(th) ==
    LET locks == SectionLocks(thread_at[th][1])
        k == thread_at[th][2]
    IN  IF k < Len(locks) THEN locks[k + 1] ELSE None

\* The thread reaches a "with" statement.
EnterSection(th, section) ==
    /\ thread_at[th] = <<"idle", 0>>
    /\ section \in ThreadSections(th)
    /\ thread_at' = [thread_at EXCEPT ![th] = <<section, 0>>]
    /\ UNCHANGED <<task_lock, agent_lock>>
    /\ UNCHANGED <<enhanced_vars, basic_vars, task_store>>

\* RLock.acquire: the lock is free or already the thread's own.
AcquireLock(th) ==
    /\ NextLock(th) # None
    /\ Owner(NextLock(th)) \in {None, th}
    /\ task_lock' = IF NextLock(th) = "task_lock" THEN th ELSE task_lock
    /\ agent_lock' = IF NextLock(th) = "agent_lock" THEN th ELSE agent_lock
    /\ thread_at' = [thread_at EXCEPT ![th][2] = @ + 1]
    /\ UNCHANGED <<enhanced_vars, basic_vars, task_store>>

\* Leaving the "with" block: the locks are released in reverse order of
\* acquisition, and the thread is idle after the last.
ReleaseLock(th) ==
    LET locks == SectionLocks(thread_at[th][1])
        n == Len(locks)
        k == thread_at[th][2]
        lock == locks[2 * n - k]
    IN  /\ thread_at[th][1] # "idle"
        /\ k >= n /\ k < 2 * n
        /\ task_lock' = IF lock = "task_lock" THEN None ELSE task_lock
        /\ agent_lock' = IF lock = "agent_lock" THEN None ELSE agent_lock
        /\ thread_at' = [thread_at EXCEPT
                           ![th] = IF k + 1 = 2 * n THEN <<"idle", 0>>
                                   ELSE <<@[1], k + 1>>]
        /\ UNCHANGED <<enhanced_vars, basic_vars, task_store>>

\* ------------------------------------------------- the basic orchestrator
\* Task(...) as constructed by create_task: the dataclass defaults.
Task(task_id, task_type, priority) ==
    [task_id |-> task_id,
     task_type |-> task_type,
     priority |-> priority,
     assigned_agent |-> None,
     status |-> "pending"]

\* _get_agent_for_task: agent_mapping.get(task_type), None without a
\* mapping.
get_agent_for_task(task_type) ==
    CASE task_type = "code_generation" -> "ImplementationAgent"
      [] task_type = "environment_setup" -> "EnvironmentAgent"
      [] task_type = "documentation_update" -> "DocumentationAgent"
      [] task_type = "test_generation" -> "TestingAgent"
      [] task_type = "config_update" -> "ConfigurationAgent"
      [] task_type = "build_validation" -> "ConfigurationAgent"
      [] task_type = "dependency_check" -> "EnvironmentAgent"
      [] OTHER -> None

\* The f-string of create_task: the task type's value and the millisecond
\* count, joined by "_". The count is the run of digits after the last
\* "_", so two ids are equal exactly when both parts are.
TaskIdOf(task_type, ms) == <<task_type, ms>>

\* register_agent(agent)
register_agent(name) ==
    /\ name \notin basic_agents
    /\ basic_agents' = basic_agents \cup {name}
    /\ UNCHANGED <<active_tasks, task_history, agent_task_queue, created,
                   clock_ms, submit_result>>
    /\ UNCHANGED <<enhanced_vars, lock_vars, task_store>>

\* create_task(task_type, description, parameters, priority)
create_task(task_type, priority) ==
    /\ created' = Append(created,
                         Task(TaskIdOf(task_type, clock_ms), task_type, priority))
    /\ UNCHANGED <<basic_agents, active_tasks, task_history,
                   agent_task_queue, clock_ms, submit_result>>
    /\ UNCHANGED <<enhanced_vars, lock_vars, task_store>>

\* The test of submit_task, line 322.
NoSuitableAgent(task_type) ==
    \/ get_agent_for_task(task_type) = None
    \/ get_agent_for_task(task_type) \notin basic_agents

\* Faulty variant of basic_submit_task: the task is assigned before the
\* registration of its agent is tested.
basic_submit_task_assigns_first(obj) ==
    LET task == created[obj]
        agent_name == get_agent_for_task(task.task_type)
    IN  /\ obj \in 1..Len(created)
        /\ task.assigned_agent = None
        /\ created' = [created EXCEPT ![obj].assigned_agent = agent_name]
        /\ IF NoSuitableAgent(task.task_type)
           THEN /\ submit_result' = <<obj, "ValueError">>
                /\ UNCHANGED <<active_tasks, agent_task_queue>>
           ELSE /\ submit_result' = <<obj, None>>
                /\ agent_task_queue' =
                      [agent_task_queue EXCEPT
                         ![agent_name] = @ \cup {<<task.priority, obj>>}]
                /\ active_tasks' = (task.task_id :> obj) @@ active_tasks
        /\ UNCHANGED <<basic_agents, task_history, clock_ms>>
        /\ UNCHANGED <<enhanced_vars, lock_vars, task_store>>

\* submit_task(task) of the basic orchestrator, under self.lock, with
\* Agent.assign_task. A Task object is submitted until it is accepted.
basic_submit_task(obj) ==
    LET task == created[obj]
        agent_name == get_agent_for_task(task.task_type)
    IN  /\ obj \in 1..Len(created)
        /\ task.assigned_agent = None
        /\ IF NoSuitableAgent(task.task_type)
           THEN /\ submit_result' = <<obj, "ValueError">>
                /\ UNCHANGED <<active_tasks, agent_task_queue, created>>
           ELSE /\ submit_result' = <<obj, None>>
                /\ created' = [created EXCEPT ![obj].assigned_agent = agent_name]
                /\ agent_task_queue' =
                      [agent_task_queue EXCEPT
                         ![agent_name] = @ \cup {<<task.priority, obj>>}]
                /\ active_tasks' = (task.task_id :> obj) @@ active_tasks
        /\ UNCHANGED <<basic_agents, task_history, clock_ms>>
        /\ UNCHANGED <<enhanced_vars, lock_vars, task_store>>

\* The Task objects that task_history holds.
Reported == {task_history[i] : i \in 1..Len(task_history)}

\* _worker_loop's local "task" of the agent's thread: the Task object it
\* took from its queue and has not yet passed to task_completed.
WorkerTask(name) ==
    {obj \in (1..Len(created)) \ Reported :
        /\ created[obj].assigned_agent = name
        /\ created[obj].status # "pending"}

\* Agent._worker_loop, lines 133-138, on the started thread of a registered
\* agent: task_queue.get returns the smallest tuple, and the task is marked
\* in_progress. Tuples of equal priority are ordered by their time stamps,
\* which the queue of the model does not keep: any of them may come first.
worker_loop_get(name, obj) ==
    /\ name \in basic_agents
    /\ WorkerTask(name) = {}
    /\ <<created[obj].priority, obj>> \in agent_task_queue[name]
    /\ \A e \in agent_task_queue[name] : created[obj].priority <= e[1]
    /\ agent_task_queue' =
          [agent_task_queue EXCEPT
             ![name] = @ \ {<<created[obj].priority, obj>>}]
    /\ created' = [created EXCEPT ![obj].status = "in_progress"]
    /\ UNCHANGED <<basic_agents, active_tasks, task_history, clock_ms,
                   submit_result>>
    /\ UNCHANGED <<enhanced_vars, lock_vars, task_store>>

\* Agent._worker_loop, lines 140-152: execute_task returns ("completed") or
\* raises ("failed").
worker_loop_execute(name, status) ==
    /\ \E obj \in WorkerTask(name) :
          /\ created[obj].status = "in_progress"
          /\ created' = [created EXCEPT ![obj].status = status]
    /\ UNCHANGED <<basic_agents, active_tasks, task_history,
                   agent_task_queue, clock_ms, submit_result>>
    /\ UNCHANGED <<enhanced_vars, lock_vars, task_store>>

\* task_completed(task), called by the worker at line 155, under self.lock.
task_completed(obj) ==
    /\ obj \in 1..Len(created)
    /\ obj \notin Reported
    /\ created[obj].status \in {"completed", "failed"}
    /\ active_tasks' =
          [id \in DOMAIN active_tasks \ {created[obj].task_id} |->
              active_tasks[id]]
    /\ task_history' = Append(task_history, obj)
    /\ UNCHANGED <<basic_agents, agent_task_queue, created, clock_ms,
                   submit_result>>
    /\ UNCHANGED <<enhanced_vars, lock_vars, task_store>>

\* get_task_status(task_id) of the basic orchestrator, under self.lock: the
\* Task object found in active_tasks, else the first one in task_history
\* with that id, else None. (The dict that asdict makes of the object is
\* not modelled: the object stands for it.)
basic_get_task_status(task_id) ==
    IF task_id \in DOMAIN active_tasks
    THEN active_tasks[task_id]
    ELSE IF \E i \in 1..Len(task_history) :
               created[task_history[i]].task_id = task_id
         THEN task_history[
                  CHOOSE i \in 1..Len(task_history) :
                      /\ created[task_history[i]].task_id = task_id
                      /\ \A j \in 1..(i - 1) :
                            created[task_history[j]].task_id # task_id]
         ELSE NoTask

\* time.time() advances by a millisecond.
ClockMs ==
    /\ clock_ms < MaxClockMs
    /\ clock_ms' = clock_ms + 1
    /\ UNCHANGED <<basic_agents, active_tasks, task_history,
                   agent_task_queue, created, submit_result>>
    /\ UNCHANGED <<enhanced_vars, lock_vars, task_store>>

\* ----------------------------------------------------------- specifications
\* Sets of ids of size at most MaxDeps, other than id itself.
DependencySets(id, n) ==
    {d \in SUBSET ((1..n) \ {id}) : Cardinality(d) <= MaxDeps}

Dispatcher ==
    \/ PopTask
    \/ EndPass
    \/ CheckDependencies
    \/ FindAgent
    \/ assign_task_to_agent
    \/ NextCycle

WorkerCompleted ==
    \E t \in TaskIds, a \in AgentSet : execute_task_completed(t, a)

WorkerFailed ==
    \E t \in TaskIds, a \in AgentSet : execute_task_failed(t, a)

\* Everything but the callers of submit_task and stop.
Orchestrator ==
    \/ Dispatcher
    \/ WorkerCompleted
    \/ WorkerFailed
    \/ agent_monitor
    \/ Tick

\* Inputs of the general specification: tasks for two agent types, each
\* with a task type its agent knows and one it does not.
SpecAgentTypes == {ENVIRONMENT, CONFIGURATION}
SpecTaskTypes == {"setup_dependencies", "generate_cmake"}
SpecPriorities == {HIGH, NORMAL}

Submit ==
    \E agent_type \in SpecAgentTypes, priority \in SpecPriorities,
       task_type \in SpecTaskTypes,
       dependencies \in DependencySets(Cardinality(TaskIds) + 1, MaxTasks) :
        /\ Cardinality(TaskIds) < MaxTasks
        /\ submit_task(Cardinality(TaskIds) + 1, agent_type, priority,
                      dependencies, task_type)

Next ==
    \/ Submit
    \/ Orchestrator

Spec == Init /\ [][Next]_vars

\* The threads keep running: the dispatcher thread, the pool workers and
\* the monitor thread each take a step when they can. The callers and the
\* clock are not forced.
Fairness ==
    /\ WF_vars(Dispatcher)
    /\ WF_vars(WorkerCompleted)
    /\ WF_vars(WorkerFailed)
    /\ WF_vars(agent_monitor)

SpecFair == Spec /\ Fairness

\* Inputs of the priority specification: dependency-free tasks for one
\* agent type, of three priorities.
PrioAgentTypes == {ENVIRONMENT}
PrioTaskTypes == {"setup_dependencies", "generate_cmake"}
PrioPriorities == {CRITICAL, HIGH, NORMAL}

SubmitPriority ==
    \E agent_type \in PrioAgentTypes, priority \in PrioPriorities,
       task_type \in PrioTaskTypes :
        /\ Cardinality(TaskIds) < MaxPrioTasks
        /\ submit_task(Cardinality(TaskIds) + 1, agent_type, priority, {},
                      task_type)

NextPriority ==
    \/ SubmitPriority
    \/ Orchestrator

SpecPriority == Init /\ [][NextPriority]_vars

\* Inputs of the load specification: dependency-free tasks of one priority
\* for one agent, enough of them to saturate it.
LoadTaskTypes == {"setup_dependencies", "generate_cmake"}

SubmitLoad ==
    \E task_type \in LoadTaskTypes :
        /\ Cardinality(TaskIds) < MaxLoadTasks
        /\ submit_task(Cardinality(TaskIds) + 1, ENVIRONMENT, NORMAL, {},
                      task_type)

NextLoad ==
    \/ SubmitLoad
    \/ Orchestrator

SpecLoad == Init /\ [][NextLoad]_vars

\* Inputs of the blocked-head specification: tasks for one agent type, the
\* first without dependencies, the later ones with none or depending on the
\* first; the threads keep running and the clock stands still.
BlockedPriorities == {HIGH, NORMAL}
BlockedTaskTypes == {"setup_dependencies", "generate_cmake"}

SubmitBlocked ==
    \E priority \in BlockedPriorities, task_type \in BlockedTaskTypes,
       dependencies \in {{}, {1} \ {Cardinality(TaskIds) + 1}} :
        /\ Cardinality(TaskIds) < MaxBlockedTasks
        /\ submit_task(Cardinality(TaskIds) + 1, ENVIRONMENT, priority,
                       dependencies, task_type)

NextBlocked ==
    \/ SubmitBlocked
    \/ Dispatcher
    \/ WorkerCompleted
    \/ WorkerFailed

SpecBlocked ==
    /\ Init
    /\ [][NextBlocked]_vars
    /\ WF_vars(Dispatcher)
    /\ WF_vars(WorkerCompleted)
    /\ WF_vars(WorkerFailed)

\* initialize_autonomous_development's task sequence, with the dependencies
\* set at lines 422-423; the uuid4 task ids are the positions 1, 2, 3.
init_tasks ==
    <<AgentTask(1, ENVIRONMENT, CRITICAL, {}, "setup_dependencies"),
      AgentTask(2, CONFIGURATION, HIGH, {1}, "generate_cmake"),
      AgentTask(3, IMPLEMENTATION, HIGH, {2}, "generate_cpp_module")>>

\* initialize_autonomous_development: one iteration of its submitting loop
\* (lines 426-427); the dispatcher and the workers run between iterations.
initialize_autonomous_development ==
    \E i \in 1..Len(init_tasks) :
        /\ i = Cardinality(TaskIds) + 1
        /\ submit_task(i, init_tasks[i].agent_type, init_tasks[i].priority,
                       init_tasks[i].dependencies, init_tasks[i].task_type)

NextInitDev ==
    \/ initialize_autonomous_development
    \/ Dispatcher
    \/ WorkerCompleted
    \/ agent_monitor
    \/ Tick

SpecInitDev == Init /\ [][NextInitDev]_vars

\* Inputs of the resubmission specification: dependency-free tasks for one
\* agent, each a new AgentTask object whose task_id is new or is one that
\* an earlier object was submitted with.
ResubmitTaskTypes == {"setup_dependencies", "generate_cmake"}

SubmitAgain ==
    \E task_type \in ResubmitTaskTypes,
       id \in DOMAIN task_store \cup {Cardinality(TaskIds) + 1} :
        /\ Cardinality(TaskIds) < MaxResubmitTasks
        /\ submit_task_object(Cardinality(TaskIds) + 1, id, ENVIRONMENT,
                              NORMAL, {}, task_type)

NextResubmit ==
    \/ SubmitAgain
    \/ Orchestrator

SpecResubmit == Init /\ [][NextResubmit]_vars

\* Inputs of the heartbeat specification: dependency-free tasks for one
\* agent type, with liveness signals arriving for its agent and for one
\* agent that has no task.
BeatAgents == {"env", "test"}

BeatTaskTypes == {"setup_dependencies", "generate_cmake"}

SubmitBeat ==
    \E task_type \in BeatTaskTypes :
        /\ Cardinality(TaskIds) < MaxBeatTasks
        /\ submit_task(Cardinality(TaskIds) + 1, ENVIRONMENT, NORMAL, {},
                       task_type)

Heartbeat == \E a \in BeatAgents : heartbeat(a)

NextBeat ==
    \/ SubmitBeat
    \/ Heartbeat
    \/ Orchestrator

SpecBeat == Init /\ [][NextBeat]_vars

\* Inputs of the basic specification: a task type whose agent gets
\* registered, one whose agent may or may not be, and one without a mapping.
BasicSpecAgents == {"ImplementationAgent", "EnvironmentAgent"}
BasicSpecTaskTypes ==
    {"code_generation", "environment_setup", "requirements_analysis"}
BasicSpecPriorities == {HIGH, NORMAL}

RegisterAgent == \E name \in BasicSpecAgents : register_agent(name)

CreateTask ==
    \E task_type \in BasicSpecTaskTypes, priority \in BasicSpecPriorities :
        /\ Len(created) < MaxCreated
        /\ create_task(task_type, priority)

SubmitBasic == \E obj \in 1..Len(created) : basic_submit_task(obj)

WorkerGet ==
    \E name \in BasicAgentNames, obj \in 1..Len(created) :
        worker_loop_get(name, obj)

WorkerExecute ==
    \E name \in BasicAgentNames, status \in {"completed", "failed"} :
        worker_loop_execute(name, status)

TaskCompleted == \E obj \in 1..Len(created) : task_completed(obj)

NextBasic ==
    \/ RegisterAgent
    \/ CreateTask
    \/ SubmitBasic
    \/ WorkerGet
    \/ WorkerExecute
    \/ TaskCompleted
    \/ ClockMs

SpecBasic == Init /\ [][NextBasic]_vars

\* The threads of the enhanced orchestrator taking and releasing its locks.
Enter == \E th \in Threads, section \in LockedSections : EnterSection(th, section)

Acquire == \E th \in Threads : AcquireLock(th)

Release == \E th \in Threads : ReleaseLock(th)

NextLocks ==
    \/ Enter
    \/ Acquire
    \/ Release

SpecLocks == Init /\ [][NextLocks]_vars

\* stop() running beside everything else.
NextStop ==
    \/ Next
    \/ stop
    \/ ExecutorShutdown

SpecStop == Init /\ [][NextStop]_vars

\* ------------------------------------------------------------- properties
Status(t) == tasks[t].status

Terminal(t) == Status(t) \in {COMPLETED, FAILED}

\* The step transitions task t to RUNNING.
BecomesRunning(t) == Status(t) # RUNNING /\ tasks'[t].status = RUNNING

\* C1: a task with dependencies is RUNNING (or beyond) only when every id
\* in its dependencies is COMPLETED and in completed_tasks; completed_tasks
\* never shrinks, so this is what held at the transition to RUNNING.
C1_DependencyGating ==
    \A t \in TaskIds :
        Status(t) # PENDING =>
            \A d \in tasks[t].dependencies :
                /\ d \in completed_tasks
                /\ d \in TaskIds
                /\ Status(d) = COMPLETED

\* C1, witness: a task with a dependency is RUNNING.
C1_Witness ==
    \E t \in TaskIds : tasks[t].dependencies # {} /\ Status(t) = RUNNING

\* C2: every status change is PENDING->RUNNING, RUNNING->COMPLETED or
\* RUNNING->FAILED; nothing leaves COMPLETED or FAILED.
C2_StatusTransitions ==
    [][\A t \in TaskIds :
          tasks'[t].status # Status(t) =>
              <<Status(t), tasks'[t].status>> \in
                  {<<PENDING, RUNNING>>, <<RUNNING, COMPLETED>>,
                   <<RUNNING, FAILED>>}]_vars

\* C2, witness: one task has ended COMPLETED and another FAILED.
C2_Witness ==
    \E t, u \in TaskIds : Status(t) = COMPLETED /\ Status(u) = FAILED

\* The step pops the head of the queue (PopTask).
PopStep == pc = "loop" /\ pc' = "deps"

\* The scenario of C3: P1 = CRITICAL, P2 = NORMAL, P3 = HIGH submitted in
\* that order, no dependencies, all for the same agent type.
C3_Scenario ==
    /\ {1, 2, 3} \subseteq TaskIds
    /\ tasks[1].priority = CRITICAL
    /\ tasks[2].priority = NORMAL
    /\ tasks[3].priority = HIGH
    /\ \A t \in {1, 2, 3} :
          tasks[t].dependencies = {} /\ tasks[t].agent_type = tasks[1].agent_type

\* C3 as stated: P1, P2, P3 become RUNNING in the order P1, P3, P2, so P3
\* is never still PENDING once P2 has started, nor P1 once P3 has.
C3_Original ==
    C3_Scenario =>
        /\ Status(2) # PENDING => Status(3) # PENDING
        /\ Status(3) # PENDING => Status(1) # PENDING

\* C3, amended: every task the dispatcher pops has the least priority value
\* of the tasks in the queue at that moment (so P2 is never popped while P3
\* waits), and the only task a step transitions to RUNNING is the popped one.
C3_PriorityOrder ==
    [][/\ PopStep =>
            /\ \A u \in QueueSet :
                  tasks[cur_task'].priority <= tasks[u].priority
            /\ (C3_Scenario /\ 3 \in QueueSet) => cur_task' # 2
       /\ \A t \in TaskIds :
            BecomesRunning(t) => (pc = "assign" /\ cur_task = t)]_vars

\* C3, witness: in the scenario P1 has started and P3 is about to be
\* assigned while P2, submitted before it, waits in the queue.
C3_Witness ==
    /\ C3_Scenario
    /\ Status(1) # PENDING
    /\ pc = "assign" /\ cur_task = 3
    /\ 2 \in QueueSet

\* C4: within one priority band tasks become RUNNING in submission order:
\* of two tasks of the same priority, agent type and dependencies, the one
\* submitted later is never started while the earlier one is still PENDING.
C4_FifoWithinBand ==
    \A a, b \in TaskIds :
        (/\ a < b
         /\ tasks[a].priority = tasks[b].priority
         /\ tasks[a].agent_type = tasks[b].agent_type
         /\ tasks[a].dependencies = tasks[b].dependencies)
        => (Status(b) # PENDING => Status(a) # PENDING)

\* C5: a task that has been assigned holds an agent of its own agent_type,
\* and so does the dispatcher between selection and assignment.
C5_AgentTypeMatch ==
    /\ \A t \in TaskIds :
          Status(t) # PENDING =>
              /\ tasks[t].assigned_agent \in AgentSet
              /\ agents[tasks[t].assigned_agent].agent_type = tasks[t].agent_type
    /\ pc = "assign" =>
          agents[cur_agent].agent_type = tasks[cur_task].agent_type

\* C5, witness: tasks of two agent types have been assigned, each to the
\* agent of its type.
C5_Witness ==
    \E t, u \in TaskIds :
        /\ tasks[t].assigned_agent = "env"
        /\ tasks[u].assigned_agent = "config"

\* C6: every agent's load_factor is within [0, 100] and never above the
\* selection threshold 80.
C6_LoadBounded ==
    \A a \in AgentSet :
        /\ agents[a].load_factor \in 0..100
        /\ agents[a].load_factor <= LoadThreshold

\* C6, witness: the dispatcher scans for an agent while the only agent of
\* the task's type is active and saturated at 80.
C6_Witness ==
    /\ pc = "find"
    /\ agents["env"].is_active
    /\ agents["env"].load_factor = LoadThreshold
    /\ tasks[cur_task].agent_type = ENVIRONMENT

\* The RUNNING tasks assigned to agent a.
RunningOn(a) ==
    {t \in TaskIds : Status(t) = RUNNING /\ tasks[t].assigned_agent = a}

\* C7: an agent's load_factor is 20 times the number of RUNNING tasks
\* assigned to it (0 when nothing runs on it).
C7_LoadMatchesRunning ==
    \A a \in AgentSet :
        agents[a].load_factor = LoadStep * Cardinality(RunningOn(a))

\* C7, witness: after cycles that ended in a completion and in a failure
\* nothing runs on the agent and its load is back at 0.
C7_Witness ==
    /\ \E t, u \in TaskIds :
          /\ Status(t) = COMPLETED /\ tasks[t].assigned_agent = "env"
          /\ Status(u) = FAILED /\ tasks[u].assigned_agent = "env"
    /\ RunningOn("env") = {}
    /\ agents["env"].load_factor = 0

\* C8: when the dispatcher transitions a task to RUNNING (it is at
\* _assign_task_to_agent with the agent it selected), that agent is active
\* and its load_factor is below 80.
C8_EligibleAtAssignment ==
    pc = "assign" =>
        /\ agents[cur_agent].is_active
        /\ agents[cur_agent].load_factor < LoadThreshold

\* C9: assigned_agent is unset exactly while the task is PENDING, names one
\* registered agent from RUNNING on, and once set never changes.
C9_AssignedAgentStable ==
    /\ [](\A t \in TaskIds :
            /\ Status(t) = PENDING <=> tasks[t].assigned_agent = None
            /\ Status(t) # PENDING => tasks[t].assigned_agent \in AgentSet)
    /\ [][\A t \in TaskIds :
            tasks[t].assigned_agent # None =>
                tasks'[t].assigned_agent = tasks[t].assigned_agent]_vars

\* C9, witness: a task has terminated and still names its agent.
C9_Witness ==
    \E t \in TaskIds : Terminal(t) /\ tasks[t].assigned_agent \in AgentSet

\* C10: error_message is set exactly on FAILED tasks, result exactly on
\* COMPLETED tasks, and no task carries both.
C10_ResultAndError ==
    \A t \in TaskIds :
        /\ tasks[t].error_message # None <=> Status(t) = FAILED
        /\ tasks[t].result # None <=> Status(t) = COMPLETED
        /\ ~(tasks[t].result # None /\ tasks[t].error_message # None)

\* C10, witness: a FAILED task carries its error text and a COMPLETED task
\* its result.
C10_Witness ==
    \E t, u \in TaskIds :
        /\ Status(t) = FAILED /\ tasks[t].error_message # None
        /\ Status(u) = COMPLETED /\ tasks[u].result # None

\* The step marks task t FAILED.
BecomesFailed(t) == Status(t) = RUNNING /\ tasks'[t].status = FAILED

\* C11: a task whose handler raised is FAILED with the exception text as
\* error_message, the step that fails it lowers its agent's load_factor by
\* 20 and leaves the queue alone, and afterwards the task is neither queued,
\* nor held by the dispatcher, nor in the worker pool, nor does its status
\* change again.
C11_FailedNoRetry ==
    /\ [](\A t \in TaskIds :
            Status(t) = FAILED =>
                /\ tasks[t].error_message =
                      HandlerError(tasks[t].agent_type, tasks[t].task_type)
                /\ t \in failed_tasks
                /\ t \notin QueueSet
                /\ cur_task # t
                /\ \A a \in AgentSet : <<t, a>> \notin pool)
    /\ [][\A t \in TaskIds :
            /\ BecomesFailed(t) =>
                  /\ agents'[tasks[t].assigned_agent].load_factor =
                        agents[tasks[t].assigned_agent].load_factor - LoadStep
                  /\ task_queue' = task_queue
            /\ Status(t) = FAILED => tasks'[t].status = FAILED]_vars

\* C11, witness: a task has FAILED, its agent's load is back at 0, and the
\* dispatcher has since ended a drain pass over an empty queue.
C11_Witness ==
    /\ \E t \in TaskIds :
          /\ Status(t) = FAILED
          /\ agents[tasks[t].assigned_agent].load_factor = 0
    /\ Cardinality(TaskIds) = MaxTasks
    /\ task_queue = <<>>
    /\ pool = {}
    /\ pc = "sleep"

\* The step is a sweep of _agent_monitor: the only step of the orchestrator
\* that writes agent records without writing a task.
SweepStep == agents' # agents /\ tasks' = tasks

\* The step is a call of _find_available_agent that returns an agent.
FindStep == pc = "find" /\ pc' = "assign"

\* C12: a sweep leaves every agent whose heartbeat age is above
\* heartbeat_timeout inactive, and no call of _find_available_agent, for
\* any agent type, returns an inactive agent.
C12_InactiveNotSelected ==
    /\ [][SweepStep =>
            \A a \in AgentSet : HeartbeatExpired(a) => ~agents'[a].is_active]_vars
    /\ [](\A a \in AgentSet :
            ~agents[a].is_active =>
                \A i \in 1..Len(AgentIds) :
                    find_available_agent(BuiltinAgentType(AgentIds[i])) # a)
    /\ [][FindStep => agents[cur_agent'].is_active]_vars

\* C12, witness: the dispatcher has scanned for an agent for a task whose
\* only agent was marked inactive by a sweep and had no load, found none
\* and put the task back.
C12_Witness ==
    /\ pc = "sleep"
    /\ ~agents["env"].is_active
    /\ agents["env"].load_factor = 0
    /\ \E i \in 1..Len(task_queue) :
          /\ tasks[task_queue[i]].agent_type = ENVIRONMENT
          /\ dependencies_satisfied(task_queue[i])
          /\ Status(task_queue[i]) = PENDING
    /\ \A i \in 1..Len(task_queue) :
          tasks[task_queue[i]].agent_type = ENVIRONMENT

\* C13: an agent whose last heartbeat is fresh (its age is within
\* heartbeat_timeout) is active, also when a sweep had marked it inactive
\* before the signal came, and _find_available_agent returns it for its
\* type when its load_factor is below 80.
C13_ReactivatedByHeartbeat ==
    \A a \in AgentSet :
        ~HeartbeatExpired(a) =>
            /\ agents[a].is_active
            /\ agents[a].load_factor < LoadThreshold =>
                  find_available_agent(agents[a].agent_type) = a

\* Some agent of the given type passes _find_available_agent's test.
SomeAgentAvailable(agent_type) ==
    \E a \in AgentSet : AgentAvailable(a, agent_type)

\* C14: every drain pass ends: whenever the dispatcher holds a popped task,
\* it later reaches the end of its cycle.
C14_DrainPassTerminates ==
    [](pc = "deps" => <>(pc = "sleep"))

\* C15: a PENDING task whose dependencies are all COMPLETED is eventually
\* RUNNING, unless no agent of its type stays available.
C15_ReadyEventuallyRuns ==
    \A t \in 1..MaxTasks :
        [](/\ t \in TaskIds
           /\ Status(t) = PENDING
           /\ dependencies_satisfied(t)
           => <>(/\ t \in TaskIds
                 /\ \/ Status(t) # PENDING
                    \/ ~SomeAgentAvailable(tasks[t].agent_type)))

\* C16: a queued dependency-free task whose handler succeeds, with an
\* active agent of its type at load 0, is eventually COMPLETED with that
\* agent's load back at 0.
C16_SubmittedCompletes ==
    \A t \in 1..MaxTasks :
        [](/\ t \in QueueSet
           /\ tasks[t].dependencies = {}
           /\ HandlerReturns(tasks[t].agent_type, tasks[t].task_type)
           /\ \E a \in AgentSet :
                 /\ agents[a].agent_type = tasks[t].agent_type
                 /\ agents[a].is_active
                 /\ agents[a].load_factor = 0
           => <>(/\ t \in TaskIds
                 /\ Status(t) = COMPLETED
                 /\ agents[tasks[t].assigned_agent].load_factor = 0))

\* Task t waits: it is PENDING and in the queue, or popped and not yet
\* matched with an agent.
Waiting(t) ==
    /\ Status(t) = PENDING
    /\ \/ t \in QueueSet
       \/ cur_task = t /\ pc \in {"deps", "find"}

\* Task t has a dependency that ended FAILED.
DependencyFailed(t) ==
    \E d \in tasks[t].dependencies : d \in TaskIds /\ Status(d) = FAILED

\* Task t has a dependency that has not been submitted.
DependencyMissing(t) == \E d \in tasks[t].dependencies : d \notin TaskIds

\* No agent of task t's type is active.
NoActiveAgent(t) ==
    \A a \in AgentSet :
        agents[a].agent_type = tasks[t].agent_type => ~agents[a].is_active

TaskLockStep ==
    \/ DOMAIN tasks' # DOMAIN tasks
    \/ pc = "assign" /\ pc' = "loop"
    \/ pool' # pool /\ pc' = pc

\* The step runs inside a "with self.agent_lock" block: the scan of
\* _find_available_agent or the sweep of _agent_monitor.
AgentLockStep ==
    \/ pc = "find" /\ pc' # pc
    \/ \E a \in AgentSet : agents'[a].is_active # agents[a].is_active

\* C18: a step that writes task state (tasks, completed_tasks,
\* failed_tasks) runs under task_lock and a step that writes an agent
\* record runs under agent_lock.
C18_LockDiscipline ==
    [][/\ (tasks' # tasks \/ completed_tasks' # completed_tasks
                          \/ failed_tasks' # failed_tasks) => TaskLockStep
       /\ agents' # agents => AgentLockStep]_vars

\* The step is a submit_task call of the basic orchestrator on Task object
\* obj that raises ValueError.
SubmitRaises(obj) ==
    /\ submit_result' # submit_result
    /\ submit_result' = <<obj, "ValueError">>

\* C19: in the basic orchestrator submit_task raises ValueError exactly
\* when the task type has no agent mapping or the mapped agent is not
\* registered; the raising call leaves active_tasks, task_history, every
\* agent's queue and the task's assigned_agent as they were, and a task
\* that was never accepted has no assigned_agent and is in no queue.
C19_RejectedSubmitNoEffect ==
    /\ [][\A obj \in 1..Len(created) :
            /\ SubmitRaises(obj) =>
                  /\ NoSuitableAgent(created[obj].task_type)
                  /\ active_tasks' = active_tasks
                  /\ task_history' = task_history
                  /\ agent_task_queue' = agent_task_queue
                  /\ created' = created
            /\ (submit_result' # submit_result /\ submit_result'[1] = obj
                  /\ NoSuitableAgent(created[obj].task_type))
                  => submit_result'[2] = "ValueError"]_vars
    /\ [](\A obj \in 1..Len(created) :
            NoSuitableAgent(created[obj].task_type) =>
                /\ created[obj].assigned_agent = None
                /\ \A name \in BasicAgentNames :
                      <<created[obj].priority, obj>> \notin agent_task_queue[name])

\* C19, witness: the last submit_task call raised ValueError for a task
\* whose type maps to an agent that is not registered, after another task
\* had been accepted.
C19_Witness ==
    /\ submit_result[2] = "ValueError"
    /\ get_agent_for_task(created[submit_result[1]].task_type) # None
    /\ \E obj \in 1..Len(created) : created[obj].assigned_agent # None

\* C20: the Task objects returned by create_task have pairwise different
\* task_ids.
C20_UniqueTaskIds ==
    \A i, j \in 1..Len(created) :
        i # j => created[i].task_id # created[j].task_id

\* How many times task t is in the queue.
QueueCount(t) == Cardinality({i \in 1..Len(task_queue) : task_queue[i] = t})

\* The dispatcher holds task t between its pop and its re-push or
\* assignment.
Held(t) == cur_task = t /\ pc \in {"deps", "find", "assign"}

\* C21: a PENDING task is in the queue exactly once or held by the
\* dispatcher, never both; a task that has left PENDING is neither; a task
\* is in the worker pool at most once and only while RUNNING, so its handler
\* is invoked at most once.
C21_NotLostNotDuplicated ==
    \A t \in TaskIds :
        /\ Status(t) = PENDING =>
              QueueCount(t) + (IF Held(t) THEN 1 ELSE 0) = 1
        /\ Status(t) # PENDING => QueueCount(t) = 0 /\ ~Held(t)
        /\ Cardinality({a \in AgentSet : <<t, a>> \in pool}) <= 1
        /\ (\E a \in AgentSet : <<t, a>> \in pool) => Status(t) = RUNNING

\* C21, witness: a task was popped with no agent available and is back in
\* the queue, once, with another task, and the pass has ended.
C21_Witness ==
    /\ pc = "sleep"
    /\ Len(task_queue) = 2
    /\ \A i \in 1..Len(task_queue) : Status(task_queue[i]) = PENDING
    /\ \E i \in 1..Len(task_queue) :
          /\ dependencies_satisfied(task_queue[i])
          /\ ~SomeAgentAvailable(tasks[task_queue[i]].agent_type)

\* C22: with stop() running beside the dispatcher, every RUNNING task is
\* in the worker pool (so that a worker will finish it and give back the
\* load).
C22_RunningIsInPool ==
    \A t \in TaskIds :
        Status(t) = RUNNING => \E a \in AgentSet : <<t, a>> \in pool

\* Thread th waits for a lock another thread owns.
WaitsFor(th, other) ==
    /\ NextLock(th) # None
    /\ other # th
    /\ Owner(NextLock(th)) = other

\* C23: no two threads wait for each other's lock (with two locks a longer
\* cycle of waiting threads cannot form), and no thread acquires task_lock
\* while it owns agent_lock: the one nesting, in get_system_status, is
\* task_lock then agent_lock.
C23_NoLockDeadlock ==
    /\ \A th, other \in Threads : ~(WaitsFor(th, other) /\ WaitsFor(other, th))
    /\ \A th \in Threads : agent_lock = th => NextLock(th) # "task_lock"

\* C23, witness: a caller inside get_system_status owns task_lock and waits
\* for agent_lock, which the monitor owns for its sweep, while the worker
\* waits for task_lock.
C23_Witness ==
    /\ \E th \in Threads :
          /\ thread_at[th][1] = "get_system_status"
          /\ task_lock = th
          /\ WaitsFor(th, "monitor")
          /\ WaitsFor("worker", th)
    /\ thread_at["dispatcher"][1] = "find_available_agent"

\* C24: when the dispatcher leaves its scan for an agent and no agent of
\* the popped task's type is available, the task is back in the queue
\* (once more entry than before), still PENDING and unassigned, no task, no
\* agent record and no pool entry has changed, and the drain pass has ended;
\* a task is popped only inside a pass.
C24_NoAgentRequeues ==
    [][/\ (pc = "find" /\ pc' # "find"
             /\ ~SomeAgentAvailable(tasks[cur_task].agent_type))
          => /\ pc' = "sleep"
             /\ Len(task_queue') = Len(task_queue) + 1
             /\ \E i \in 1..Len(task_queue') : task_queue'[i] = cur_task
             /\ tasks' = tasks
             /\ Status(cur_task) = PENDING
             /\ tasks[cur_task].assigned_agent = None
             /\ agents' = agents
             /\ pool' = pool
       /\ cur_task' # cur_task /\ cur_task' # 0 => pc = "loop"]_vars

\* C24, witness: the pass has ended with a ready task back in the queue
\* while the only agent of its type is active and saturated.
C24_Witness ==
    /\ pc = "sleep"
    /\ agents["env"].is_active
    /\ agents["env"].load_factor = LoadThreshold
    /\ task_queue # <<>>
    /\ \A i \in 1..Len(task_queue) : Status(task_queue[i]) = PENDING

\* A PENDING task of higher priority than t (a smaller value) that can
\* never be dispatched: a dependency ended FAILED, or no agent of its type
\* is active (nothing in the code sets is_active back to True).
BlockedAhead(t) ==
    \E h \in TaskIds :
        /\ Status(h) = PENDING
        /\ tasks[h].priority < tasks[t].priority
        /\ \/ DependencyFailed(h)
           \/ NoActiveAgent(h)

\* C25: a ready PENDING task with a permanently blocked task of higher
\* priority ahead of it is eventually dispatched (it leaves PENDING), unless no agent of
\* its own type stays available.
C25_BlockedHeadNoStarvation ==
    \A t \in 1..MaxBlockedTasks :
        [](/\ t \in TaskIds
           /\ Status(t) = PENDING
           /\ dependencies_satisfied(t)
           /\ BlockedAhead(t)
           => <>(/\ t \in TaskIds
                 /\ \/ Status(t) = RUNNING
                    \/ Terminal(t)
                    \/ ~SomeAgentAvailable(tasks[t].agent_type)))

\* The task submitted with the given task type, if any has left PENDING.
Started(task_type) ==
    \E t \in TaskIds : tasks[t].task_type = task_type /\ Status(t) # PENDING

\* The task submitted with the given task type is COMPLETED.
Finished(task_type) ==
    \E t \in TaskIds : tasks[t].task_type = task_type /\ Status(t) = COMPLETED

\* C26: of the three initialization tasks, generate_cmake has not left
\* PENDING unless setup_dependencies is COMPLETED, and generate_cpp_module
\* has not left PENDING unless generate_cmake is COMPLETED.
C26_InitChainOrder ==
    /\ Started("generate_cmake") => Finished("setup_dependencies")
    /\ Started("generate_cpp_module") => Finished("generate_cmake")

\* The last task of the chain is RUNNING.
C26_Witness ==
    /\ Cardinality(TaskIds) = Len(init_tasks)
    /\ \E t \in TaskIds :
           /\ tasks[t].task_type = "generate_cpp_module"
           /\ Status(t) = RUNNING

\* C27: completed_tasks is exactly the ids whose record is COMPLETED and
\* failed_tasks exactly those whose record is FAILED, the two are disjoint
\* and within the store, and get_system_status's total is the sum of its
\* four counts.
C27_SetsMatchStatus ==
    /\ completed_tasks =
          {id \in DOMAIN task_store : tasks[task_store[id]].status = COMPLETED}
    /\ failed_tasks =
          {id \in DOMAIN task_store : tasks[task_store[id]].status = FAILED}
    /\ completed_tasks \cap failed_tasks = {}
    /\ (completed_tasks \cup failed_tasks) \subseteq DOMAIN task_store
    /\ get_system_status.tasks.total =
          get_system_status.tasks.pending + get_system_status.tasks.running
          + get_system_status.tasks.completed + get_system_status.tasks.failed

\* The dispatcher or a worker holds the object, or the queue does.
InFlight(obj) ==
    \/ obj \in QueueSet
    \/ cur_task = obj
    \/ \E a \in AgentSet : <<obj, a>> \in pool

\* C28: every AgentTask object that is queued, held by the dispatcher or
\* executing is the record get_task_status returns for its task_id.
C28_SingleCanonicalRecord ==
    \A obj \in TaskIds :
        InFlight(obj) => get_task_status(tasks[obj].task_id) = obj

\* The step marks an agent inactive: a sweep of _agent_monitor.
MarksInactive ==
    \E a \in AgentSet : agents[a].is_active /\ ~agents'[a].is_active

\* C29: a step that marks an agent inactive changes no other field of any
\* agent, no task, not the queue and not the executor's work; a task
\* executing on an inactive agent can always finish, and the step that
\* finishes it ends it COMPLETED or FAILED and takes 20 off that agent's
\* load_factor, leaving the agent inactive.
C29_SweepOnlyFlags ==
    /\ [][MarksInactive =>
            /\ \A a \in AgentSet :
                   agents'[a] = [agents[a] EXCEPT !.is_active = agents'[a].is_active]
            /\ tasks' = tasks
            /\ task_queue' = task_queue
            /\ completed_tasks' = completed_tasks
            /\ failed_tasks' = failed_tasks
            /\ pool' = pool]_vars
    /\ [](\A w \in pool :
            ~agents[w[2]].is_active =>
                ENABLED (\/ execute_task_completed(w[1], w[2])
                         \/ execute_task_failed(w[1], w[2])))
    /\ [][\A w \in pool :
            (w \notin pool' /\ ~agents[w[2]].is_active) =>
                /\ tasks'[w[1]].status \in {COMPLETED, FAILED}
                /\ agents'[w[2]].load_factor
                      = agents[w[2]].load_factor - LoadStep
                /\ ~agents'[w[2]].is_active]_vars

\* A task is RUNNING on an agent that a sweep has marked inactive.
C29_Witness ==
    \E w \in pool :
        /\ ~agents[w[2]].is_active
        /\ agents[w[2]].load_factor = LoadStep
        /\ Status(w[1]) = RUNNING

\* submit_task of the basic orchestrator accepted the Task object: only
\* Agent.assign_task, reached by an accepted call, sets assigned_agent.
Accepted(obj) == created[obj].assigned_agent # None

\* C30: for every accepted Task object, in every state, get_task_status of
\* its id returns a record, and the object is the entry of active_tasks
\* under its id until task_completed has put it into task_history.
C30_AcceptedAlwaysFound ==
    \A obj \in 1..Len(created) :
        Accepted(obj) =>
            /\ basic_get_task_status(created[obj].task_id) # NoTask
            /\ obj \notin Reported =>
                  /\ created[obj].task_id \in DOMAIN active_tasks
                  /\ active_tasks[created[obj].task_id] = obj

====
